---- MODULE Spec2Model ----
(***************************************************************************)
(* Model of the rate-limited, caching Merriam-Webster proxy               *)
(* (packages/endpoint): the RateLimiter Durable Object, the KV cache       *)
(* helpers and the request handlers of the worker.                         *)
(*                                                                         *)
(* Every request is one process.  A process moves at the handler's await   *)
(* points; the code between two awaits is one step.                        *)
(*                                                                         *)
(* The RateLimiter is a Durable Object reached through                      *)
(* idFromName("global"): one instance serves every caller.  The platform   *)
(* delivers no other event to a Durable Object while one of its storage    *)
(* operations is outstanding (the input gate); InputGateOpen states that   *)
(* rule, and the steps of the object are written one per await so that the *)
(* rule, not the step size, is what serialises them.                       *)
(*                                                                         *)
(* The wall clock is a UTC date and the seconds since its midnight.  A KV  *)
(* key put with an expirationTtl is gone from the put time plus the TTL    *)
(* on; the clock steps remove such keys (Unexpired).                       *)
(***************************************************************************)
EXTENDS Integers, Sequences, FiniteSets, TLC

\* ------------------------------------------------------------------ bounds
NumReq == 2        \* requests the worker has in flight at once
MaxDay == 1        \* UTC days are 0..MaxDay
MaxLimit == 2      \* DAILY_REQUEST_LIMIT is drawn from 1..MaxLimit
StepsPerDay == 2   \* instants of a day the wall clock can show

\* --------------------------------------------------------- program constants
MaxWordLen == 100  \* validateWord: word.length > 100
NOT_FOUND_TTL == 60 * 60 * 24   \* cache.ts, in seconds
DaySeconds == 24 * 60 * 60      \* a UTC day, midnight to midnight
StepSeconds == DaySeconds \div StepsPerDay

\* The requests: NumReq of them may be in flight together; two more are
\* there for the runs in which one request follows another.
Concurrent == 1..NumReq
Req == 1..(NumReq + 2)
Days == 0..MaxDay
NoDay == -1

\* A word of n letters.
LongWord(n) == [i \in 1..n |-> "a"]

\* Words as the handler receives them (decoded from the URL path), as
\* sequences of characters: the empty word, one word in two letter cases and
\* between spaces, the longest word validateWord lets through and the
\* shortest too-long one.
Words ==
    { <<>>, <<"H", "i">>, <<"h", "i">>, <<" ", "h", "i", " ">>,
      LongWord(MaxWordLen), LongWord(MaxWordLen + 1) }
LookupTypes == {"define", "synonyms"}

\* The bodies the MW API answers a lookup with: a list of entries, a list of
\* suggested spellings, or an empty list.
Bodies == {"entries", "suggestions", "empty"}

VARIABLES
    now,            \* the current UTC day (wall clock, the date)
    secs,           \* seconds since the last UTC midnight (wall clock)
    limit,          \* RateLimiter.limit
    counter,        \* Durable Object storage key "counter": {} or {[date, count]}
    cache,          \* KV namespace CACHE: set of [key, data, found, expiration]
    pending,        \* cache writes handed to ctx.waitUntil, not landed yet
    pc,             \* where each request is
    kind,           \* which endpoint the request is for
    token,          \* the bearer token of the request's Authorization header
    delType,        \* handleCacheDelete: the type in the path
    word,           \* the word of a lookup
    path,           \* pathname of the request sent to the Durable Object
    today,          \* local `today` of the Durable Object call
    cnt,            \* local `count` of the Durable Object call
    rl,             \* the RateLimitStatus the Durable Object returned
    cached,         \* what getCached returned: {} (null) or {entry}
    upstream,       \* number of upstream (MW API) calls the request made
    writes,         \* number of setCache calls the request started
    resp            \* the response of the request

vars == << now, secs, limit, counter, cache, pending, pc, kind, token, delType, word,
           path, today, cnt, rl, cached, upstream, writes, resp >>

NoStatus == [allowed |-> FALSE, remaining |-> -1, limit |-> -1, resetsAt |-> NoDay]
NoData == <<>>
NoResp ==
    [code |-> "none", cached |-> FALSE, data |-> NoData, found |-> FALSE,
     quota |-> NoStatus, retryAfter |-> {}]

\* A KV entry stored without expirationTtl.
NoExpiration == -1

\* ------------------------------------------------------------- pure helpers

\* String.prototype.toLowerCase on one character.
LowerChar(c) == IF c = "H" THEN "h" ELSE IF c = "I" THEN "i" ELSE c

ToLowerCase(w) == [i \in 1..Len(w) |-> LowerChar(w[i])]

\* The characters of a lookup type, as the template string of getCacheKey
\* writes them.
TypeString(type) ==
    IF type = "define" THEN <<"d", "e", "f", "i", "n", "e">>
    ELSE IF type = "synonyms" THEN <<"s", "y", "n", "o", "n", "y", "m", "s">>
    ELSE <<type>>

\* Variant of getCacheKey: the key is the lowercased word alone.
getCacheKeyWordOnly(type, w) == ToLowerCase(w)

\* cache.ts getCacheKey: `${type}|${word.toLowerCase()}`
getCacheKey(type, w) == TypeString(type) \o <<"|">> \o ToLowerCase(w)

\* Variant of validateWord: `word.length >= 100`.
validateWordAtLimit(w) == Len(w) = 0 \/ Len(w) >= MaxWordLen

\* Variant of isEntries: a list is a list of entries unless its first
\* element is a string.
isEntriesUnlessStrings(b) == b # "suggestions"

\* guards.ts isDictionaryEntries / isThesaurusEntries: a non-empty array
\* whose first element has a `meta`.
isEntries(b) == b = "entries"

\* client.ts define / synonyms: the result made of the body, for the word
\* that was asked.
DictionaryResult(b, w) == <<b>> \o w

\* shared.ts validateWord: TRUE when the word is rejected.
validateWord(w) == Len(w) = 0 \/ Len(w) > MaxWordLen

\* Date.now(), in seconds.
Clock == now * DaySeconds + secs

\* RateLimiter.getTodayUTC
getTodayUTC == now

\* Variant of getNextMidnightUTC: the midnight that follows the date of the
\* stored record.
getNextMidnightUTCOfRecord ==
    IF counter # {} THEN (CHOOSE s \in counter : TRUE).date + 1 ELSE now + 1

\* RateLimiter.getNextMidnightUTC: the midnight that ends the current day,
\* named by the day it starts.
getNextMidnightUTC == now + 1

\* Variant of CountFor: the stored count is taken whatever the stored date.
CountIgnoringDate(stored, day) ==
    IF stored # {} THEN (CHOOSE s \in stored : TRUE).count ELSE 0

\* checkAndIncrement / getStatus: `let count = 0; if (stored && stored.date
\* === today) count = stored.count`.
CountFor(stored, day) ==
    IF \E s \in stored : s.date = day
    THEN (CHOOSE s \in stored : s.date = day).count
    ELSE 0

\* Variant of LimitReached: `count > this.limit`.
LimitExceeded(count) == count > limit

\* checkAndIncrement: `if (count >= this.limit)`.
LimitReached(count) == count >= limit

\* Variant of PutRecord: the count is stored without the increment.
PutRecordNoIncrement(day, count) == [date |-> day, count |-> count]

\* Variant of PutRecord: the date is read from the clock again at the put.
PutRecordDateAtPut(day, count) == [date |-> getTodayUTC, count |-> count + 1]

\* checkAndIncrement: the record of `storage.put("counter", {date: today,
\* count: count + 1})`.
PutRecord(day, count) == [date |-> day, count |-> count + 1]

\* checkAndIncrement: the status returned with the refusal.
RefusedStatus ==
    [allowed |-> FALSE, remaining |-> 0, limit |-> limit,
     resetsAt |-> getNextMidnightUTC]

\* Variant of AllowedStatus: remaining computed from the count before the
\* increment.
AllowedStatusBeforeIncrement(count) ==
    [allowed |-> TRUE, remaining |-> limit - count, limit |-> limit,
     resetsAt |-> getNextMidnightUTC]

\* checkAndIncrement: the status returned after the put.
AllowedStatus(count) ==
    [allowed |-> TRUE, remaining |-> limit - count - 1, limit |-> limit,
     resetsAt |-> getNextMidnightUTC]

\* Variant of CurrentStatus: allowed tells whether a unit is left.
CurrentStatusByCapacity(count) ==
    [allowed |-> limit - count > 0, remaining |-> limit - count,
     limit |-> limit, resetsAt |-> getNextMidnightUTC]

\* Variant of CurrentStatus: remaining as checkAndIncrement computes it.
CurrentStatusAsIfConsumed(count) ==
    [allowed |-> TRUE, remaining |-> limit - count - 1, limit |-> limit,
     resetsAt |-> getNextMidnightUTC]

\* getStatus: the status returned; `allowed: true` whatever the count.
CurrentStatus(count) ==
    [allowed |-> TRUE, remaining |-> limit - count, limit |-> limit,
     resetsAt |-> getNextMidnightUTC]

\* Variant of StoreOnRefusal: refused attempts are counted too.
StoreOnRefusalCounting(stored, day) ==
    {[date |-> day, count |-> CountFor(stored, day) + 1]}

\* checkAndIncrement, refusal branch: it returns before any storage.put, so
\* the storage is what it was.
StoreOnRefusal(stored, day) == stored

\* Variant of StoreOnStatus: a record of another day is reset when it is read.
StoreOnStatusResetting(stored, day) ==
    IF stored # {} /\ \A s \in stored : s.date # day
    THEN {[date |-> day, count |-> 0]}
    ELSE stored

\* getStatus: it calls storage.get only, so the storage is what it was.
StoreOnStatus(stored, day) == stored

\* Variant of StoreOnUpstreamError: the unit of a failed upstream call is
\* given back.
StoreOnUpstreamErrorRefunding(stored, day) ==
    {[date |-> s.date,
      count |-> IF s.date = day THEN s.count - 1 ELSE s.count] : s \in stored}

\* handleDefine / handleSynonyms, catch branch: handleMWError builds a
\* response and sends nothing to the Durable Object, so the storage is what
\* it was.
StoreOnUpstreamError(stored, day) == stored

\* Variant of InputGateOpen: the gate stays closed once a call has been
\* answered.
InputGateNeverReopened ==
    \A q \in Req : pc[q] \notin {"ci_get", "ci_put", "st_get"} /\ rl[q] = NoStatus

\* Variant of InputGateOpen: events are delivered while a storage operation
\* of another call is outstanding.
InputGateAbsent == TRUE

\* The input gate of the Durable Object: a new event is delivered only when
\* no call of the object is waiting for a storage operation.
InputGateOpen == \A q \in Req : pc[q] \notin {"ci_get", "ci_put", "st_get"}

\* Variant of RouteOnHit: the handler checks and increments on a cache hit.
RouteOnHitChecking == "/check"

\* handleDefine / handleSynonyms: the Durable Object endpoint asked on a
\* cache hit (getRateLimitStatus) and on a cache miss (checkRateLimit).
RouteOnHit == "/status"

\* handleDefine / handleSynonyms: checkRateLimit on a cache miss.
RouteOnMiss == "/check"

\* The secrets of the deployment (env.WORKER_API_KEY, env.ADMIN_API_KEY).
WORKER_API_KEY == "user-key"
ADMIN_API_KEY == "admin-key"

\* auth.ts extractBearerToken: null when there is no Authorization header
\* or it does not start with "Bearer ".
NoToken == "null"

\* What extractBearerToken can return: null, either key, anything else.
Tokens == {NoToken, WORKER_API_KEY, ADMIN_API_KEY, "other"}

\* Variant of validateUserAuth: validateAuth, either key will do.
validateUserAuthEither(tok) == tok \in {WORKER_API_KEY, ADMIN_API_KEY}

\* auth.ts validateUserAuth: token === env.WORKER_API_KEY.
validateUserAuth(tok) == tok = WORKER_API_KEY

\* Variant of validateAdminAuth: validateAuth, either key will do.
validateAdminAuthEither(tok) == tok \in {WORKER_API_KEY, ADMIN_API_KEY}

\* auth.ts validateAdminAuth: token === env.ADMIN_API_KEY.
validateAdminAuth(tok) == tok = ADMIN_API_KEY

\* worker.ts unauthorizedResponse (401) and forbiddenResponse (403).
unauthorizedResponse == [NoResp EXCEPT !.code = "UNAUTHORIZED"]

forbiddenResponse == [NoResp EXCEPT !.code = "FORBIDDEN"]

\* worker.ts internalErrorResponse: what handleRequest's catch answers.
internalErrorResponse == [NoResp EXCEPT !.code = "INTERNAL_ERROR"]

\* Variant of RouteOnCacheError: a failed cache read is taken for a miss.
RouteOnCacheErrorAsMiss == "/check"

\* handleDefine / handleSynonyms: `await getCached(...)` has no catch, so a
\* failed cache read asks nothing of the Durable Object.
RouteOnCacheError == "none"

\* Variant of MayCallUpstream: the refusal is not looked at.
MayCallUpstreamAlways(st) == TRUE

\* handleDefine / handleSynonyms: `if (!rateLimit.allowed) return
\* rateLimitedResponse(rateLimit)`; the MW API is called only past it.
MayCallUpstream(st) == st.allowed

\* Variant of ExpirationFor: every entry is stored with the TTL.
ExpirationAlways(found) == Clock + NOT_FOUND_TTL

\* Variant of ExpirationFor: no entry is stored with a TTL.
ExpirationNever(found) == NoExpiration

\* cache.ts setCache: `options = found ? {} : { expirationTtl: NOT_FOUND_TTL }`;
\* KV turns the TTL into the expiration time of the key, counted from the put.
ExpirationFor(found) == IF found THEN NoExpiration ELSE Clock + NOT_FOUND_TTL

\* KV: the entries of c that are still there at time t (a key put with an
\* expirationTtl is gone from its expiration time on).
Unexpired(c, t) == {e \in c : e.expiration = NoExpiration \/ t < e.expiration}

\* ------------------------------------------------------------ initial state

\* A fresh deployment: empty Durable Object storage, empty KV namespace, no
\* request received.  The constructor reads the limit from the environment.
Init ==
    /\ now = 0
    /\ secs = 0
    /\ limit \in 1..MaxLimit
    /\ counter = {}
    /\ cache = {}
    /\ pending = {}
    /\ pc = [r \in Req |-> "idle"]
    /\ kind = [r \in Req |-> "none"]
    /\ token = [r \in Req |-> NoToken]
    /\ delType = [r \in Req |-> "none"]
    /\ word = [r \in Req |-> <<>>]
    /\ path = [r \in Req |-> "none"]
    /\ today = [r \in Req |-> NoDay]
    /\ cnt = [r \in Req |-> 0]
    /\ rl = [r \in Req |-> NoStatus]
    /\ cached = [r \in Req |-> {}]
    /\ upstream = [r \in Req |-> 0]
    /\ writes = [r \in Req |-> 0]
    /\ resp = [r \in Req |-> NoResp]

\* ------------------------------------------------------------------ worker

\* worker.ts handleRequest -> handleRateLimitStatus: 401 without the user
\* key; otherwise the status endpoint sends /status to the Durable Object.
ReceiveStatus(r, tok) ==
    /\ pc[r] = "idle"
    /\ \A q \in Req : q < r => pc[q] # "idle"
    /\ kind' = [kind EXCEPT ![r] = "status"]
    /\ token' = [token EXCEPT ![r] = tok]
    /\ IF ~validateUserAuth(tok)
       THEN /\ resp' = [resp EXCEPT ![r] = unauthorizedResponse]
            /\ pc' = [pc EXCEPT ![r] = "done"]
            /\ UNCHANGED path
       ELSE /\ path' = [path EXCEPT ![r] = "/status"]
            /\ pc' = [pc EXCEPT ![r] = "do_wait"]
            /\ UNCHANGED resp
    /\ UNCHANGED << now, secs, limit, delType, writes, counter, cache, pending, word, today, cnt, rl,
                    cached, upstream >>

\* handleRequest -> handleDefine / handleSynonyms up to the first await:
\* 401 without the user key, then validateWord, then getCached is issued.
ReceiveLookup(r, t, w, tok) ==
    /\ pc[r] = "idle"
    /\ \A q \in Req : q < r => pc[q] # "idle"
    /\ kind' = [kind EXCEPT ![r] = t]
    /\ word' = [word EXCEPT ![r] = w]
    /\ token' = [token EXCEPT ![r] = tok]
    /\ IF ~validateUserAuth(tok)
       THEN /\ resp' = [resp EXCEPT ![r] = unauthorizedResponse]
            /\ pc' = [pc EXCEPT ![r] = "done"]
       ELSE IF validateWord(w)
       THEN /\ resp' = [resp EXCEPT ![r] = [NoResp EXCEPT !.code = "INVALID_WORD"]]
            /\ pc' = [pc EXCEPT ![r] = "done"]
       ELSE /\ pc' = [pc EXCEPT ![r] = "cache_get"]
            /\ UNCHANGED resp
    /\ UNCHANGED << now, secs, limit, delType, writes, counter, cache, pending, path, today, cnt, rl,
                    cached, upstream >>

\* cache.ts getCached resolves; on a hit the handler asks the Durable Object
\* for the status, on a miss it asks it to check and increment.
CacheGet(r) ==
    /\ pc[r] = "cache_get"
    /\ LET hit == {e \in cache : e.key = getCacheKey(kind[r], word[r])}
       IN  /\ cached' = [cached EXCEPT ![r] = hit]
           /\ path' = [path EXCEPT ![r] = IF hit # {} THEN RouteOnHit ELSE RouteOnMiss]
    /\ pc' = [pc EXCEPT ![r] = "do_wait"]
    /\ UNCHANGED << token, now, secs, limit, delType, writes, counter, cache, pending, kind, word, today,
                    cnt, rl, upstream, resp >>

\* kv.get rejects: getCached is awaited outside any try block, so the error
\* leaves the handler and handleRequest's catch answers INTERNAL_ERROR.
CacheGetFails(r) ==
    /\ pc[r] = "cache_get"
    /\ IF RouteOnCacheError = "none"
       THEN /\ resp' = [resp EXCEPT ![r] = internalErrorResponse]
            /\ pc' = [pc EXCEPT ![r] = "done"]
            /\ UNCHANGED path
       ELSE /\ path' = [path EXCEPT ![r] = RouteOnCacheError]
            /\ pc' = [pc EXCEPT ![r] = "do_wait"]
            /\ UNCHANGED resp
    /\ UNCHANGED << token, now, secs, limit, delType, writes, counter, cache, pending, kind, word,
                    today, cnt, rl, cached, upstream >>

\* ------------------------------------------------- RateLimiter Durable Object

\* RateLimiter.fetch: the event is delivered, the pathname selects the
\* operation, which runs to its first await (storage.get).
Fetch(r) ==
    /\ pc[r] = "do_wait"
    /\ InputGateOpen
    /\ today' = [today EXCEPT ![r] = getTodayUTC]
    /\ pc' = [pc EXCEPT ![r] = IF path[r] = "/check" THEN "ci_get" ELSE "st_get"]
    /\ UNCHANGED << token, now, secs, limit, delType, writes, counter, cache, pending, kind, word, path, cnt,
                    rl, cached, upstream, resp >>

\* checkAndIncrement after storage.get: the count for today, and either the
\* refusal or the put.
CheckRead(r) ==
    /\ pc[r] = "ci_get"
    /\ LET count == CountFor(counter, today[r])
       IN  IF LimitReached(count)
           THEN /\ rl' = [rl EXCEPT ![r] = RefusedStatus]
                /\ counter' = StoreOnRefusal(counter, today[r])
                /\ pc' = [pc EXCEPT ![r] = "do_resp"]
                /\ UNCHANGED cnt
           ELSE /\ cnt' = [cnt EXCEPT ![r] = count]
                /\ pc' = [pc EXCEPT ![r] = "ci_put"]
                /\ UNCHANGED << rl, counter >>
    /\ UNCHANGED << token, now, secs, limit, delType, writes, cache, pending, kind, word, path, today,
                    cached, upstream, resp >>

\* checkAndIncrement: storage.put of {date: today, count: count + 1} and the
\* allowed status.
CheckWrite(r) ==
    /\ pc[r] = "ci_put"
    /\ counter' = {PutRecord(today[r], cnt[r])}
    /\ rl' = [rl EXCEPT ![r] = AllowedStatus(cnt[r])]
    /\ cnt' = [cnt EXCEPT ![r] = 0]
    /\ pc' = [pc EXCEPT ![r] = "do_resp"]
    /\ UNCHANGED << token, now, secs, limit, delType, writes, cache, pending, kind, word, path, today,
                    cached, upstream, resp >>

\* The call to the Durable Object fails: stub.fetch rejects, or a storage
\* operation of the object rejects and the call with it.  checkRateLimit and
\* getRateLimitStatus are awaited outside any try block, so the error leaves
\* the handler and handleRequest's catch answers INTERNAL_ERROR.  Nothing
\* was stored: a put that rejected stored nothing.
DurableObjectFails(r) ==
    /\ pc[r] \in {"do_wait", "ci_get", "ci_put", "st_get"}
    /\ resp' = [resp EXCEPT ![r] = internalErrorResponse]
    /\ cnt' = [cnt EXCEPT ![r] = 0]
    /\ cached' = [cached EXCEPT ![r] = {}]
    /\ pc' = [pc EXCEPT ![r] = "done"]
    /\ UNCHANGED << token, now, secs, limit, delType, writes, counter, cache, pending, kind, word, path,
                    today, rl, upstream >>

\* getStatus after storage.get.
StatusRead(r) ==
    /\ pc[r] = "st_get"
    /\ rl' = [rl EXCEPT ![r] = CurrentStatus(CountFor(counter, today[r]))]
    /\ counter' = StoreOnStatus(counter, today[r])
    /\ pc' = [pc EXCEPT ![r] = "do_resp"]
    /\ UNCHANGED << token, now, secs, limit, delType, writes, cache, pending, kind, word, path, today, cnt,
                    cached, upstream, resp >>

\* ------------------------------------------------------- handlers, continued

\* Variant of rateLimitBlock: remaining is computed from the quota record
\* as it is when the response is built.
rateLimitBlockReread(st) ==
    [st EXCEPT !.remaining = limit - CountFor(counter, getTodayUTC)]

\* handleDefine / handleSynonyms: the rateLimit block of a success envelope,
\* copied field by field from the status the handler holds.
rateLimitBlock(st) == st

\* Variant of rateLimitedResponse: Retry-After counts to the midnight that
\* follows the moment of the response.
rateLimitedResponseToNextMidnight(st) ==
    [NoResp EXCEPT !.code = "RATE_LIMITED", !.quota = [st EXCEPT !.remaining = 0],
                   !.retryAfter = {(now + 1) * DaySeconds - Clock}]

\* shared.ts rateLimitedResponse: the quota block of the 429 envelope and
\* the Retry-After header, Math.ceil((resetsAt - Date.now()) / 1000).
rateLimitedResponse(st) ==
    [NoResp EXCEPT !.code = "RATE_LIMITED", !.quota = [st EXCEPT !.remaining = 0],
                   !.retryAfter = {st.resetsAt * DaySeconds - Clock}]

\* The Durable Object's answer reaches the caller, which runs to its next
\* await or to its response.
\*  - handleRateLimitStatus answers with the status;
\*  - a lookup that hit the cache answers with the cached data;
\*  - a lookup that missed answers 429 when the check refused, and calls the
\*    MW API otherwise.
Resume(r) ==
    /\ pc[r] = "do_resp"
    /\ IF kind[r] = "status"
       THEN /\ resp' = [resp EXCEPT ![r] = [NoResp EXCEPT !.code = "STATUS", !.quota = rl[r]]]
            /\ pc' = [pc EXCEPT ![r] = "done"]
            /\ UNCHANGED << upstream, cached >>
       ELSE IF cached[r] # {}
       THEN /\ LET e == CHOOSE x \in cached[r] : TRUE
                IN  resp' = [resp EXCEPT ![r] =
                               [code |-> "OK", cached |-> TRUE, data |-> e.data,
                                found |-> e.found, quota |-> rateLimitBlock(rl[r]),
                                retryAfter |-> {}]]
            /\ cached' = [cached EXCEPT ![r] = {}]
            /\ pc' = [pc EXCEPT ![r] = "done"]
            /\ UNCHANGED upstream
       ELSE IF ~MayCallUpstream(rl[r])
       THEN /\ resp' = [resp EXCEPT ![r] = rateLimitedResponse(rl[r])]
            /\ pc' = [pc EXCEPT ![r] = "done"]
            /\ UNCHANGED << upstream, cached >>
       ELSE /\ upstream' = [upstream EXCEPT ![r] = @ + 1]
            /\ pc' = [pc EXCEPT ![r] = "mw_call"]
            /\ UNCHANGED << resp, cached >>
    /\ UNCHANGED << token, now, secs, limit, delType, writes, counter, cache, pending, kind, word, path,
                    today, cnt, rl >>

\* Variant of WritesOnSuccess: a not-found result is not cached.
WritesOnSuccessFoundOnly(w) == IF w.found THEN {w} ELSE {}

\* handleDefine / handleSynonyms: the one `ctx.waitUntil(setCache(...))` of
\* the success path, as the set of writes it hands over.
WritesOnSuccess(w) == {w}

\* mw.define / mw.synonyms resolves with the body b of the MW API's answer:
\* the result is {found: true, entries} when the body is a list of entries
\* and {found: false, suggestions} otherwise; the cache write is handed to
\* ctx.waitUntil and the success envelope is returned.
UpstreamOk(r, b) ==
    /\ pc[r] = "mw_call"
    /\ LET result == DictionaryResult(b, word[r])
           started == WritesOnSuccess(
                         [by |-> r, key |-> getCacheKey(kind[r], word[r]),
                          data |-> result, found |-> isEntries(b)])
       IN  /\ pending' = pending \cup started
           /\ writes' = [writes EXCEPT ![r] = @ + Cardinality(started)]
           /\ resp' = [resp EXCEPT ![r] =
                         [code |-> "OK", cached |-> FALSE, data |-> result,
                          found |-> isEntries(b), quota |-> rateLimitBlock(rl[r]),
                          retryAfter |-> {}]]
    /\ pc' = [pc EXCEPT ![r] = "done"]
    /\ UNCHANGED << token, now, secs, limit, delType, counter, cache, kind, word, path,
                    today, cnt, rl, cached, upstream >>

\* Variant of handleMWError: the error envelope is built without the
\* rate-limit status.
handleMWErrorWithoutStatus(isMWError, st) ==
    IF isMWError
    THEN [NoResp EXCEPT !.code = "UPSTREAM_ERROR"]
    ELSE [NoResp EXCEPT !.code = "INTERNAL_ERROR"]

\* shared.ts handleMWError: a MerriamWebsterError (TimeoutError,
\* NetworkError, InvalidKeyError, APIError) becomes UPSTREAM_ERROR with the
\* rate-limit status; anything else is thrown again, and handleRequest's
\* catch answers INTERNAL_ERROR.
handleMWError(isMWError, st) ==
    IF isMWError
    THEN [NoResp EXCEPT !.code = "UPSTREAM_ERROR", !.quota = st]
    ELSE [NoResp EXCEPT !.code = "INTERNAL_ERROR"]

\* Variant of AfterUpstreamError: the handler goes back to call the MW API
\* again.
AfterUpstreamErrorRetry == "do_resp"

\* handleDefine / handleSynonyms: `catch (error) { return handleMWError(...) }`,
\* the request is over.
AfterUpstreamError == "done"

\* The try block of handleDefine / handleSynonyms throws: the client's
\* request rejected with a MerriamWebsterError, or the constructor or the
\* method threw a plain Error (no key configured).
UpstreamFails(r, isMWError) ==
    /\ pc[r] = "mw_call"
    /\ resp' = [resp EXCEPT ![r] = handleMWError(isMWError, rl[r])]
    /\ counter' = StoreOnUpstreamError(counter, today[r])
    /\ pc' = [pc EXCEPT ![r] = AfterUpstreamError]
    /\ UNCHANGED << token, now, secs, limit, delType, writes, cache, pending, kind, word, path, today,
                    cnt, rl, cached, upstream >>

\* Variant of Overwritten: a put leaves what was stored under the key.
OverwrittenNone(c, key) == {}

\* KV put: the value stored under the key, which the put replaces.
Overwritten(c, key) == {e \in c : e.key = key}

\* cache.ts setCache: `JSON.stringify(value)` of {data, cachedAt, found}, as
\* the sequence of the tokens of the text: the result is an object whose
\* list holds strings.  (The value's cachedAt is left out: no handler reads
\* it.)
JSONStringify(value) ==
    << <<"{">>, <<"key", "data">>, <<"[">> >>
       \o [i \in 1..Len(value.data) |-> <<"string", value.data[i]>>]
       \o << <<"]">>, <<"key", "found">>,
              IF value.found THEN <<"true">> ELSE <<"false">>, <<"}">> >>

\* Variant of JSONParse: found is read as the presence of the field.
JSONParseFoundPresent(text) ==
    LET close == CHOOSE i \in 1..Len(text) :
                    text[i] = <<"]">> /\ \A j \in 1..(i - 1) : text[j] # <<"]">>
    IN  [data |-> [i \in 1..(close - 4) |-> text[i + 3][2]],
         found |-> text[close + 1] = <<"key", "found">>]

\* cache.ts getCached: `kv.get(key, "json")` parses the stored text back
\* into the value.
JSONParse(text) ==
    LET close == CHOOSE i \in 1..Len(text) :
                    text[i] = <<"]">> /\ \A j \in 1..(i - 1) : text[j] # <<"]">>
    IN  [data |-> [i \in 1..(close - 4) |-> text[i + 3][2]],
         found |-> text[close + 2] = <<"true">>]

\* cache.ts setCache: the kv.put of a deferred write lands.  The entry is
\* kept as getCached reads it back from the text that was put.
SetCacheLands(p) ==
    /\ p \in pending
    /\ LET value == JSONParse(JSONStringify([data |-> p.data, found |-> p.found]))
       IN  cache' = (cache \ Overwritten(cache, p.key)) \cup
                       {[key |-> p.key, data |-> value.data, found |-> value.found,
                         expiration |-> ExpirationFor(p.found)]}
    /\ pending' = pending \ {p}
    /\ UNCHANGED << token, now, secs, limit, delType, writes, counter, pc, kind, word, path, today, cnt, rl,
                    cached, upstream, resp >>

\* The kv.put of a deferred write rejects: nothing is stored.
SetCacheFails(p) ==
    /\ p \in pending
    /\ pending' = pending \ {p}
    /\ UNCHANGED << token, now, secs, limit, delType, writes, counter, cache, pc, kind, word, path, today,
                    cnt, rl, cached, upstream, resp >>

\* ----------------------------------------------------------- admin handler

\* Variant of KeysDeleted: nothing is deleted.
KeysDeletedNone(t, w) == {}

\* Variant of KeysDeleted: every entry of the word goes, whatever its type.
KeysDeletedAnyType(t, w) == {getCacheKey(u, w) : u \in LookupTypes}

\* cache.ts deleteCache: kv.delete(getCacheKey(type, word)), as the set of
\* keys it deletes.
KeysDeleted(t, w) == {getCacheKey(t, w)}

\* Variant of hasCache: the entry is looked for under the word as typed.
hasCacheExactCase(c, t, w) == \E e \in c : e.key = TypeString(t) \o <<"|">> \o w

\* cache.ts hasCache: kv.getWithMetadata(key).value !== null.
hasCache(c, t, w) == \E e \in c : e.key = getCacheKey(t, w)

\* handleRequest -> admin.ts handleCacheDelete up to its first await: 403
\* without the admin key.  The path must match
\* /cache/(define|synonyms)/(.+), so an empty word is INVALID_PATH; a word
\* longer than 100 characters is INVALID_WORD; otherwise hasCache is issued.
ReceiveDelete(r, t, w, tok) ==
    /\ pc[r] = "idle"
    /\ \A q \in Req : q < r => pc[q] # "idle"
    /\ kind' = [kind EXCEPT ![r] = "delete"]
    /\ delType' = [delType EXCEPT ![r] = t]
    /\ word' = [word EXCEPT ![r] = w]
    /\ token' = [token EXCEPT ![r] = tok]
    /\ IF ~validateAdminAuth(tok)
       THEN /\ resp' = [resp EXCEPT ![r] = forbiddenResponse]
            /\ pc' = [pc EXCEPT ![r] = "done"]
       ELSE IF Len(w) = 0
       THEN /\ resp' = [resp EXCEPT ![r] = [NoResp EXCEPT !.code = "INVALID_PATH"]]
            /\ pc' = [pc EXCEPT ![r] = "done"]
       ELSE IF validateWord(w)
       THEN /\ resp' = [resp EXCEPT ![r] = [NoResp EXCEPT !.code = "INVALID_WORD"]]
            /\ pc' = [pc EXCEPT ![r] = "done"]
       ELSE /\ pc' = [pc EXCEPT ![r] = "has_get"]
            /\ UNCHANGED resp
    /\ UNCHANGED << now, secs, limit, writes, counter, cache, pending, path,
                    today, cnt, rl, cached, upstream >>

\* handleCacheDelete after hasCache: NOT_FOUND when there is no entry,
\* otherwise deleteCache is issued.
HasCache(r) ==
    /\ pc[r] = "has_get"
    /\ IF hasCache(cache, delType[r], word[r])
       THEN /\ pc' = [pc EXCEPT ![r] = "kv_delete"]
            /\ UNCHANGED resp
       ELSE /\ resp' = [resp EXCEPT ![r] = [NoResp EXCEPT !.code = "NOT_FOUND"]]
            /\ pc' = [pc EXCEPT ![r] = "done"]
    /\ UNCHANGED << token, now, secs, limit, delType, writes, counter, cache, pending,
                    kind, word, path, today, cnt, rl, cached, upstream >>

\* handleCacheDelete after deleteCache: the key is gone and the answer is
\* {deleted: true}.
DeleteCache(r) ==
    /\ pc[r] = "kv_delete"
    /\ cache' = {e \in cache : e.key \notin KeysDeleted(delType[r], word[r])}
    /\ resp' = [resp EXCEPT ![r] = [NoResp EXCEPT !.code = "DELETED"]]
    /\ pc' = [pc EXCEPT ![r] = "done"]
    /\ UNCHANGED << token, now, secs, limit, delType, writes, counter, pending, kind,
                    word, path, today, cnt, rl, cached, upstream >>

\* kv.getWithMetadata or kv.delete rejects: handleRequest's catch answers
\* INTERNAL_ERROR and nothing is deleted.
DeleteFails(r) ==
    /\ pc[r] \in {"has_get", "kv_delete"}
    /\ resp' = [resp EXCEPT ![r] = internalErrorResponse]
    /\ pc' = [pc EXCEPT ![r] = "done"]
    /\ UNCHANGED << token, now, secs, limit, delType, writes, counter, cache, pending,
                    kind, word, path, today, cnt, rl, cached, upstream >>

\* The wall clock passes a UTC midnight; KV entries whose expiration has
\* come are gone.
Tick ==
    /\ now < MaxDay
    /\ now' = now + 1
    /\ secs' = 0
    /\ cache' = Unexpired(cache, (now + 1) * DaySeconds)
    /\ UNCHANGED << token, limit, delType, writes, counter, pending, pc, kind, word, path,
                    today, cnt, rl, cached, upstream, resp >>

\* The wall clock moves on within the day; KV entries whose expiration has
\* come are gone.
Advance ==
    /\ secs + StepSeconds < DaySeconds
    /\ secs' = secs + StepSeconds
    /\ cache' = Unexpired(cache, Clock + StepSeconds)
    /\ UNCHANGED << token, now, limit, delType, writes, counter, pending, pc, kind, word, path, today,
                    cnt, rl, cached, upstream, resp >>

Next ==
    \/ \E r \in Concurrent, tok \in Tokens : ReceiveStatus(r, tok)
    \/ \E r \in Concurrent, t \in LookupTypes, w \in Words, tok \in Tokens :
          ReceiveLookup(r, t, w, tok)
    \/ \E r \in Concurrent : CacheGet(r)
    \/ \E r \in Concurrent : CacheGetFails(r)
    \/ \E r \in Concurrent : Fetch(r)
    \/ \E r \in Concurrent : CheckRead(r)
    \/ \E r \in Concurrent : CheckWrite(r)
    \/ \E r \in Concurrent : StatusRead(r)
    \/ \E r \in Concurrent : DurableObjectFails(r)
    \/ \E r \in Concurrent : Resume(r)
    \/ \E r \in Concurrent, b \in Bodies : UpstreamOk(r, b)
    \/ \E r \in Concurrent, e \in BOOLEAN : UpstreamFails(r, e)
    \/ \E p \in pending : SetCacheLands(p)
    \/ \E p \in pending : SetCacheFails(p)
    \/ \E r \in Concurrent, t \in LookupTypes, w \in Words, tok \in Tokens :
          ReceiveDelete(r, t, w, tok)
    \/ \E r \in Concurrent : HasCache(r)
    \/ \E r \in Concurrent : DeleteCache(r)
    \/ \E r \in Concurrent : DeleteFails(r)
    \/ Tick
    \/ Advance

Spec == Init /\ [][Next]_vars

\* The same system with every lookup a define of one word: the rate limiter
\* sees neither the type nor the word of a lookup.
QuotaType == "define"
QuotaWord == <<"h", "i">>

\* A found and a not-found answer: the rate limiter sees no body.
QuotaBodies == {"entries", "empty"}

QuotaNext ==
    \/ \E r \in Concurrent : ReceiveStatus(r, WORKER_API_KEY)
    \/ \E r \in Concurrent : ReceiveLookup(r, QuotaType, QuotaWord, WORKER_API_KEY)
    \/ \E r \in Concurrent : CacheGet(r)
    \/ \E r \in Concurrent : CacheGetFails(r)
    \/ \E r \in Concurrent : Fetch(r)
    \/ \E r \in Concurrent : CheckRead(r)
    \/ \E r \in Concurrent : CheckWrite(r)
    \/ \E r \in Concurrent : StatusRead(r)
    \/ \E r \in Concurrent : DurableObjectFails(r)
    \/ \E r \in Concurrent : Resume(r)
    \/ \E r \in Concurrent, b \in QuotaBodies : UpstreamOk(r, b)
    \/ \E r \in Concurrent, e \in BOOLEAN : UpstreamFails(r, e)
    \/ \E p \in pending : SetCacheLands(p)
    \/ \E p \in pending : SetCacheFails(p)
    \/ Tick

QuotaSpec == Init /\ [][QuotaNext]_vars

\* The calls of the rate limiter under a clock that also moves within the
\* day, with nothing failing.
ClockNext ==
    \/ \E r \in Concurrent : ReceiveStatus(r, WORKER_API_KEY)
    \/ \E r \in Concurrent : ReceiveLookup(r, QuotaType, QuotaWord, WORKER_API_KEY)
    \/ \E r \in Concurrent : CacheGet(r)
    \/ \E r \in Concurrent : Fetch(r)
    \/ \E r \in Concurrent : CheckRead(r)
    \/ \E r \in Concurrent : CheckWrite(r)
    \/ \E r \in Concurrent : StatusRead(r)
    \/ \E r \in Concurrent : Resume(r)
    \/ \E r \in Concurrent : UpstreamOk(r, "entries")
    \/ \E p \in pending : SetCacheLands(p)
    \/ Tick
    \/ Advance

ClockSpec == Init /\ [][ClockNext]_vars

\* The lookups of one word under a clock that also moves within the day:
\* what the cache holds, and for how long.
CacheNext ==
    \/ \E r \in Concurrent : ReceiveLookup(r, QuotaType, QuotaWord, WORKER_API_KEY)
    \/ \E r \in Concurrent : CacheGet(r)
    \/ \E r \in Concurrent : Fetch(r)
    \/ \E r \in Concurrent : CheckRead(r)
    \/ \E r \in Concurrent : CheckWrite(r)
    \/ \E r \in Concurrent : StatusRead(r)
    \/ \E r \in Concurrent : Resume(r)
    \/ \E r \in Concurrent, b \in Bodies : UpstreamOk(r, b)
    \/ \E p \in pending : SetCacheLands(p)
    \/ \E p \in pending : SetCacheFails(p)
    \/ Tick
    \/ Advance

\* The largest limit: every lookup that misses is served.
CacheInit == Init /\ limit = MaxLimit

CacheSpec == CacheInit /\ [][CacheNext]_vars

\* The lookups alone, of every type and word, on one day: the validation,
\* the cache key and the cache look at the word, not at the clock.
WordNext ==
    \/ \E r \in Concurrent, t \in LookupTypes, w \in Words : ReceiveLookup(r, t, w, WORKER_API_KEY)
    \/ \E r \in Concurrent : CacheGet(r)
    \/ \E r \in Concurrent : CacheGetFails(r)
    \/ \E r \in Concurrent : Fetch(r)
    \/ \E r \in Concurrent : CheckRead(r)
    \/ \E r \in Concurrent : CheckWrite(r)
    \/ \E r \in Concurrent : StatusRead(r)
    \/ \E r \in Concurrent : DurableObjectFails(r)
    \/ \E r \in Concurrent : Resume(r)
    \/ \E r \in Concurrent, b \in QuotaBodies : UpstreamOk(r, b)
    \/ \E r \in Concurrent, e \in BOOLEAN : UpstreamFails(r, e)
    \/ \E p \in pending : SetCacheLands(p)
    \/ \E p \in pending : SetCacheFails(p)

\* The smallest limit, so that lookups are refused as well as served.
WordInit == Init /\ limit = 1

WordSpec == WordInit /\ [][WordNext]_vars

\* Lookups and cache deletions of one word in two letter cases, of both
\* types, one request more than may be in flight together, on one day.
AdminWord == <<"H", "i">>

\* Fewer than NumReq requests are being handled.
Room == Cardinality({q \in Req : pc[q] \notin {"idle", "done"}}) < NumReq

AdminReq == 1..(NumReq + 1)

AdminNext ==
    \/ \E r \in AdminReq, t \in LookupTypes : Room /\ ReceiveLookup(r, t, QuotaWord, WORKER_API_KEY)
    \/ \E r \in AdminReq : CacheGet(r)
    \/ \E r \in AdminReq : Fetch(r)
    \/ \E r \in AdminReq : CheckRead(r)
    \/ \E r \in AdminReq : CheckWrite(r)
    \/ \E r \in AdminReq : StatusRead(r)
    \/ \E r \in AdminReq : Resume(r)
    \/ \E r \in AdminReq, b \in QuotaBodies : UpstreamOk(r, b)
    \/ \E p \in pending : SetCacheLands(p)
    \/ \E p \in pending : SetCacheFails(p)
    \/ \E r \in AdminReq, t \in LookupTypes : Room /\ ReceiveDelete(r, t, AdminWord, ADMIN_API_KEY)
    \/ \E r \in AdminReq : HasCache(r)
    \/ \E r \in AdminReq : DeleteCache(r)
    \/ \E r \in AdminReq : DeleteFails(r)

AdminSpec == CacheInit /\ [][AdminNext]_vars

\* One request after another: a request is received when every request
\* before it has been answered.  Deferred cache writes may still be pending.
Quiet == \A q \in Req : pc[q] \in {"idle", "done"}

\* Requests of every endpoint with every token, of one word, on one day,
\* one after another, with nothing failing.
AuthNext ==
    \/ \E r \in AdminReq, tok \in Tokens : Quiet /\ ReceiveStatus(r, tok)
    \/ \E r \in AdminReq, t \in LookupTypes, tok \in Tokens :
          Quiet /\ ReceiveLookup(r, t, QuotaWord, tok)
    \/ \E r \in AdminReq : CacheGet(r)
    \/ \E r \in AdminReq : Fetch(r)
    \/ \E r \in AdminReq : CheckRead(r)
    \/ \E r \in AdminReq : CheckWrite(r)
    \/ \E r \in AdminReq : StatusRead(r)
    \/ \E r \in AdminReq : Resume(r)
    \/ \E r \in AdminReq : UpstreamOk(r, "entries")
    \/ \E p \in pending : SetCacheLands(p)
    \/ \E r \in AdminReq, t \in LookupTypes, tok \in Tokens :
          Quiet /\ ReceiveDelete(r, t, AdminWord, tok)
    \/ \E r \in AdminReq : HasCache(r)
    \/ \E r \in AdminReq : DeleteCache(r)

AuthSpec == Init /\ [][AuthNext]_vars

SeqWords == { <<"h", "i">>, <<" ", "h", "i", " ">> }

SeqNext ==
    \/ \E r \in Req, w \in SeqWords : Quiet /\ ReceiveLookup(r, QuotaType, w, WORKER_API_KEY)
    \/ \E r \in Req : CacheGet(r)
    \/ \E r \in Req : Fetch(r)
    \/ \E r \in Req : CheckRead(r)
    \/ \E r \in Req : CheckWrite(r)
    \/ \E r \in Req : StatusRead(r)
    \/ \E r \in Req : Resume(r)
    \/ \E r \in Req, b \in QuotaBodies : UpstreamOk(r, b)
    \/ \E r \in Req, e \in BOOLEAN : UpstreamFails(r, e)
    \/ \E p \in pending : SetCacheLands(p)
    \/ \E p \in pending : SetCacheFails(p)
    \/ \E r \in Req, w \in SeqWords : Quiet /\ ReceiveDelete(r, QuotaType, w, ADMIN_API_KEY)
    \/ \E r \in Req : HasCache(r)
    \/ \E r \in Req : DeleteCache(r)

SeqSpec == Init /\ [][SeqNext]_vars

\* The calls a request makes return: the cache read, the delivery of its
\* event to the Durable Object, the object's storage operations, the
\* object's answer and the MW API's answer.
Returns(r) ==
    \/ CacheGet(r)
    \/ Fetch(r)
    \/ CheckRead(r)
    \/ CheckWrite(r)
    \/ StatusRead(r)
    \/ Resume(r)
    \/ \E b \in QuotaBodies : UpstreamOk(r, b)

\* A valid and an empty word.
LiveWords == {QuotaWord, <<>>}

\* Lookups on one day; every call may return or fail.
LiveNext ==
    \/ \E r \in Concurrent, w \in LiveWords : ReceiveLookup(r, QuotaType, w, WORKER_API_KEY)
    \/ \E r \in Concurrent : Returns(r)
    \/ \E r \in Concurrent : CacheGetFails(r)
    \/ \E r \in Concurrent : DurableObjectFails(r)
    \/ \E r \in Concurrent, e \in BOOLEAN : UpstreamFails(r, e)
    \/ \E p \in pending : SetCacheLands(p)
    \/ \E p \in pending : SetCacheFails(p)

\* Every call a request is waiting for returns at some time unless it
\* fails: the runtime resumes a handler whose awaited promise has settled,
\* and the Durable Object delivers a queued event once its input gate is
\* open.
LiveSpec ==
    Init /\ [][LiveNext]_vars /\ \A r \in Concurrent : WF_vars(Returns(r))

\* ------------------------------------------------------------------ claims

Min(a, b) == IF a <= b THEN a ELSE b

\* The checkAndIncrement calls that have returned, and the day each is
\* charged to (the `today` it compared the stored date with).
CompletedChecks(d) ==
    {r \in Req : path[r] = "/check" /\ rl[r] # NoStatus /\ today[r] = d}

AllowedOn(d) == {r \in CompletedChecks(d) : rl[r].allowed}

\* The checkAndIncrement calls that have read a count below the limit and
\* have not written yet.
AboutToWrite(d) == {r \in Req : pc[r] = "ci_put" /\ today[r] = d}

\* The record is absent or dated another day than the call's `today`.
StaleFor(r) == \A s \in counter : s.date # today[r]

RECURSIVE UpstreamCalls(_)
UpstreamCalls(S) ==
    IF S = {} THEN 0
    ELSE LET r == CHOOSE x \in S : TRUE
         IN  upstream[r] + UpstreamCalls(S \ {r})

\* C1: on every day, the calls that returned allowed=true, together with the
\* calls that have read a count below the limit and are about to write, never
\* number more than limit.
C1_AtMostLimit ==
    \A d \in Days : Cardinality(AllowedOn(d)) + Cardinality(AboutToWrite(d)) <= limit

\* Two calls of one day whose answers are both on their way back: one took
\* the last unit, the other was refused.
C1_Witness ==
    \E r, q \in Req :
        /\ r # q
        /\ pc[r] = "do_resp" /\ pc[q] = "do_resp"
        /\ today[r] = today[q]
        /\ r \in AllowedOn(today[r])
        /\ q \in CompletedChecks(today[q]) /\ ~rl[q].allowed
        /\ Cardinality(AllowedOn(today[r])) = limit

\* C2: a request that called the MW API had its own checkAndIncrement return
\* allowed=true before, and the MW API calls charged to one day never number
\* more than limit.
C2_UpstreamAfterAllowed ==
    /\ \A r \in Req : upstream[r] > 0 => path[r] = "/check" /\ rl[r].allowed
    /\ \A d \in Days : UpstreamCalls({r \in Req : today[r] = d}) <= limit

\* One request called the MW API and another of the same day was refused.
C2_Witness ==
    \E r, q \in Req :
        /\ upstream[r] = 1
        /\ resp[q].code = "RATE_LIMITED"
        /\ today[r] = today[q]

\* C3: no step of a request that found its word in the cache changes the
\* stored quota record, and such a request asks the Durable Object for
\* /status only.
C3_CacheHitLeavesQuota ==
    [][\A r \in Req :
          (pc'[r] # pc[r] /\ (cached[r] # {} \/ cached'[r] # {}))
              => (counter' = counter /\ path'[r] = "/status")]_vars

\* A lookup answered from the cache after quota had been consumed.
C3_Witness ==
    \E r \in Req :
        /\ resp[r].code = "OK" /\ resp[r].cached
        /\ counter # {}
        /\ resp[r].quota.remaining < limit

\* C4: for every day, of the n calls that have returned exactly min(n, limit)
\* were allowed, the allowed ones returned the remaining values limit-1,
\* limit-2, ..., each once, and a record of that day holds the count
\* min(n, limit); the record of the last day with an allowed call is stored.
C4_Linearizable ==
    \A d \in Days :
        LET k == Min(Cardinality(CompletedChecks(d)), limit)
        IN  /\ Cardinality(AllowedOn(d)) = k
            /\ {rl[r].remaining : r \in AllowedOn(d)} = {limit - i : i \in 1..k}
            /\ \A s \in counter : s.date = d => s.count = k
            /\ (k > 0 /\ \A e \in Days : e > d => AllowedOn(e) = {})
                  => counter = {[date |-> d, count |-> k]}

\* Two calls of one day, both allowed, their answers both on their way back.
C4_Witness ==
    \E r, q \in Req :
        /\ r # q
        /\ pc[r] = "do_resp" /\ pc[q] = "do_resp"
        /\ today[r] = today[q]
        /\ {r, q} \subseteq AllowedOn(today[r])
        /\ rl[r].remaining = 1 /\ rl[q].remaining = 0
        /\ counter = {[date |-> today[r], count |-> 2]}

\* C5: a call that finds no record of its day (none at all, or one of another
\* day, whatever its count) is not refused, stores {date: today, count: 1}
\* and returns allowed=true with remaining = limit - 1.
C5_DayRollover ==
    [][\A r \in Req :
          StaleFor(r) =>
              /\ (pc[r] = "ci_get" /\ pc'[r] \in {"ci_put", "do_resp"}) => pc'[r] = "ci_put"
              /\ (pc[r] = "ci_put" /\ pc'[r] = "do_resp") =>
                    /\ counter' = {[date |-> today[r], count |-> 1]}
                    /\ rl'[r].allowed
                    /\ rl'[r].remaining = limit - 1]_vars

\* Yesterday was exhausted, and today's first call was allowed.
C5_Witness ==
    \E r, q \in Req :
        /\ today[q] = 0 /\ q \in AllowedOn(0) /\ rl[q].remaining = 0
        /\ today[r] = 1 /\ r \in AllowedOn(1) /\ rl[r].remaining = limit - 1
        /\ counter = {[date |-> 1, count |-> 1]}

\* C6: the stored count always equals the number of allowed calls charged to
\* the stored date, and no write replaces a record by one of an earlier date.
C6_NoLossAtRollover ==
    /\ [](\A s \in counter : s.count = Cardinality(AllowedOn(s.date)))
    /\ [][\A s \in counter : \A t \in counter' : t.date >= s.date]_vars

\* A call that started before midnight and returned after it, followed by an
\* allowed call of the new day.
C6_Witness ==
    \E r, q \in Req :
        /\ r \in AllowedOn(0) /\ rl[r].resetsAt = 2
        /\ q \in AllowedOn(1)
        /\ counter = {[date |-> 1, count |-> 1]}

\* C7: a stored record has 1 <= count <= limit.
C7_CountWithinLimit ==
    \A s \in counter : 1 <= s.count /\ s.count <= limit

\* The record is at the limit and a getStatus call has read it.
C7_Witness ==
    /\ \E s \in counter : s.count = limit
    /\ \E r \in Req :
          path[r] = "/status" /\ rl[r] # NoStatus /\ rl[r].remaining = 0

\* C8: the step in which a call returns allowed=true stores today's count
\* raised by exactly one, and returns remaining = limit - (c + 1).
C8_IncrementByOne ==
    [][\A r \in Req :
          (path[r] = "/check" /\ ~rl[r].allowed /\ rl'[r].allowed) =>
              LET c == CountFor(counter, today[r])
              IN  /\ counter' = {[date |-> today[r], count |-> c + 1]}
                  /\ CountFor(counter', today[r]) = c + 1
                  /\ rl'[r].remaining = limit - (c + 1)]_vars

\* An allowed call that raised the count from 1 to 2.
C8_Witness ==
    \E r \in Req :
        /\ r \in AllowedOn(today[r])
        /\ rl[r].remaining = limit - 2
        /\ counter = {[date |-> today[r], count |-> 2]}

\* C9: a call that reads today's count equal to limit returns allowed=false
\* with remaining=0 and leaves the stored record as it was.
C9_RefusalLeavesRecord ==
    [][\A r \in Req :
          (pc[r] = "ci_get" /\ pc'[r] \in {"ci_put", "do_resp"}
              /\ CountFor(counter, today[r]) = limit) =>
              /\ pc'[r] = "do_resp"
              /\ ~rl'[r].allowed /\ rl'[r].remaining = 0 /\ rl'[r].limit = limit
              /\ counter' = counter]_vars

\* A refused call, the record still at the limit.
C9_Witness ==
    \E r \in Req :
        /\ r \in CompletedChecks(today[r])
        /\ ~rl[r].allowed /\ rl[r].remaining = 0
        /\ counter = {[date |-> today[r], count |-> limit]}

\* C10: no step of a getStatus call or of a request to the status endpoint
\* changes the stored record; the record changes only in the step in which a
\* checkAndIncrement call returns allowed=true.
C10_StatusNeverWrites ==
    [][/\ \A r \in Req :
            (pc'[r] # pc[r] /\ (kind'[r] = "status" \/ path'[r] = "/status"))
                => counter' = counter
       /\ counter' # counter =>
            \E r \in Req : pc[r] = "ci_put" /\ path[r] = "/check" /\ rl'[r].allowed]_vars

\* The status endpoint answered while the stored record was of an earlier
\* day; the record is still there.
C10_Witness ==
    \E r \in Req :
        /\ kind[r] = "status" /\ resp[r].code = "STATUS"
        /\ resp[r].quota.remaining = limit
        /\ counter # {}
        /\ \A s \in counter : s.date < today[r]

Max(a, b) == IF a >= b THEN a ELSE b

\* The getStatus calls that have returned.
CompletedStatus == {r \in Req : path[r] = "/status" /\ rl[r] # NoStatus}

\* C11 as stated: a status returned by getStatus has allowed = TRUE exactly
\* when its remaining is above 0.
C11_AllowedIffRemaining ==
    \A r \in CompletedStatus : rl[r].allowed <=> rl[r].remaining > 0

\* C11, amended: every status returned by getStatus has allowed = TRUE,
\* whatever its remaining; with today's count at the limit it has
\* allowed = TRUE and remaining = 0.
C11_StatusAlwaysAllowed ==
    \A r \in CompletedStatus :
        /\ rl[r].allowed
        /\ resp[r].code = "STATUS" => resp[r].quota.allowed

\* getStatus returned for a day whose count is at the limit: remaining 0 and
\* allowed TRUE, and the status endpoint answered with it.
C11_Witness ==
    \E r \in CompletedStatus :
        /\ kind[r] = "status" /\ resp[r].code = "STATUS"
        /\ resp[r].quota.allowed /\ resp[r].quota.remaining = 0
        /\ CountFor(counter, today[r]) = limit

\* C12: every status a checkAndIncrement or getStatus call returns has
\* remaining = max(0, limit - c), c being the count stored for the call's day
\* when the call returns; remaining is never below 0 and never above limit.
C12_RemainingFromCount ==
    /\ [](\A r \in Req : rl[r] # NoStatus =>
              0 <= rl[r].remaining /\ rl[r].remaining <= limit)
    /\ [][\A r \in Req : rl'[r] # rl[r] =>
              rl'[r].remaining = Max(0, limit - CountFor(counter', today[r]))]_vars

\* A checkAndIncrement call took the first unit of its day (remaining =
\* limit - 1), a getStatus call saw the untouched day (remaining = limit).
C12_Witness ==
    \E r, q \in Req :
        /\ path[r] = "/check" /\ rl[r].allowed /\ rl[r].remaining = limit - 1
        /\ path[q] = "/status" /\ rl[q] # NoStatus /\ rl[q].remaining = limit

\* The record is of an earlier day than the call's `today`.
EarlierDayFor(r) == counter # {} /\ \A s \in counter : s.date < today[r]

\* C13: while the day does not change, the count in force for it stays or
\* goes up by exactly one, and it goes up only in the step in which a
\* checkAndIncrement call stores its record; a checkAndIncrement call that
\* reads a count equal to limit returns allowed = FALSE; a call that finds
\* the record of an earlier day goes on to store and returns allowed = TRUE.
C13_DayStateMachine ==
    [][/\ now' = now =>
            LET c == CountFor(counter, now)
                d == CountFor(counter', now)
            IN  \/ d = c
                \/ /\ d = c + 1
                   /\ \E r \in Req : pc[r] = "ci_put" /\ pc'[r] = "do_resp"
       /\ \A s \in counter, t \in counter' :
            t.date = s.date => t.count = s.count \/ t.count = s.count + 1
       /\ \A r \in Req :
            /\ (pc[r] = "ci_get" /\ pc'[r] \in {"ci_put", "do_resp"}
                  /\ CountFor(counter, today[r]) = limit)
                 => (pc'[r] = "do_resp" /\ ~rl'[r].allowed)
            /\ (pc[r] = "ci_get" /\ pc'[r] \in {"ci_put", "do_resp"} /\ EarlierDayFor(r))
                 => pc'[r] = "ci_put"
            /\ (pc[r] = "ci_put" /\ pc'[r] = "do_resp") => rl'[r].allowed]_vars

\* A day went from no unit used to all units used through two allowed
\* calls, one step each: limit is 2, the record says 2, and the two calls
\* were answered remaining = 1 and remaining = 0.
C13_Witness ==
    /\ limit = 2
    /\ \E r, q \in Req :
          /\ pc[r] = "done" /\ pc[q] = "done"
          /\ today[r] = today[q]
          /\ rl[r].allowed /\ rl[r].remaining = 1
          /\ rl[q].allowed /\ rl[q].remaining = 0
          /\ counter = {[date |-> today[r], count |-> 2]}

\* The checkAndIncrement calls that returned allowed = FALSE.
Refused == {r \in Req : path[r] = "/check" /\ rl[r] # NoStatus /\ ~rl[r].allowed}

\* What the claims below share: a refused request has called no upstream and
\* handed over no cache write, and its answer, once given, is RATE_LIMITED
\* with remaining = 0 and the limit and resetsAt of its check.
RefusedEnvelope(r) ==
    /\ upstream[r] = 0
    /\ \A p \in pending : p.by # r
    /\ pc[r] = "done" =>
          /\ resp[r].code = "RATE_LIMITED"
          /\ resp[r].quota.remaining = 0
          /\ resp[r].quota.limit = rl[r].limit
          /\ resp[r].quota.resetsAt = rl[r].resetsAt

\* C14 as stated: a refused request calls no upstream, writes no cache entry
\* and answers RATE_LIMITED with remaining = 0 and the limit and resetsAt of
\* its check, and its retry-after is a positive number of seconds.
C14_RetryAfterPositive ==
    \A r \in Refused :
        /\ RefusedEnvelope(r)
        /\ pc[r] = "done" =>
              (resp[r].retryAfter # {} /\ \A n \in resp[r].retryAfter : n > 0)

\* C14, amended: a refused request calls no upstream, writes no cache entry
\* and answers RATE_LIMITED with remaining = 0 and the limit and resetsAt of
\* its check; its retry-after is resetsAt minus the time at which the
\* response is built, which is positive when the response is built before
\* the midnight resetsAt names.
C14_RefusedAnswer ==
    /\ [](\A r \in Refused : RefusedEnvelope(r))
    /\ [][\A r \in Req :
            (resp[r] = NoResp /\ resp'[r].code = "RATE_LIMITED") =>
               /\ resp'[r].retryAfter = {rl[r].resetsAt * DaySeconds - Clock}
               /\ now < rl[r].resetsAt =>
                     \A n \in resp'[r].retryAfter : n > 0]_vars

\* A refused request was answered RATE_LIMITED with a whole day to wait,
\* having called no upstream.
C14_Witness ==
    \E r \in Refused :
        /\ resp[r].code = "RATE_LIMITED"
        /\ resp[r].retryAfter = {DaySeconds}
        /\ resp[r].quota.remaining = 0
        /\ upstream[r] = 0

\* The requests whose upstream call failed.
UpstreamFailed ==
    {r \in Req : upstream[r] > 0 /\ resp[r].code \in {"UPSTREAM_ERROR", "INTERNAL_ERROR"}}

\* C15: a request whose upstream call failed stays counted (the record of
\* its day is not below the number of calls allowed on that day, the failed
\* one among them); the step of the failure leaves the record as it is, and
\* no step lowers the count of a stored date or removes the record.
C15_NoRefund ==
    /\ [](\A r \in UpstreamFailed :
            /\ r \in AllowedOn(today[r])
            /\ \A s \in counter :
                  s.date = today[r] => s.count >= Cardinality(AllowedOn(today[r])))
    /\ [][/\ \A s \in counter, t \in counter' :
               t.date = s.date => t.count >= s.count
          /\ counter # {} => counter' # {}
          /\ \A r \in Req :
               (pc[r] = "mw_call" /\ pc'[r] = "done" /\ resp'[r].code # "OK")
                   => counter' = counter]_vars

\* A request was answered UPSTREAM_ERROR and the record of its day still
\* counts its unit: the count is limit minus the remaining it was told.
C15_Witness ==
    \E r \in UpstreamFailed :
        /\ resp[r].code = "UPSTREAM_ERROR"
        /\ counter # {}
        /\ \A s \in counter :
              s.date = today[r] /\ s.count = limit - resp[r].quota.remaining

\* C16 as stated: every request whose upstream step failed is answered
\* UPSTREAM_ERROR with the status of its own checkAndIncrement, and has
\* handed over no cache write.
C16_AlwaysUpstreamError ==
    \A r \in Req :
        (pc[r] = "done" /\ upstream[r] > 0 /\ resp[r].code # "OK") =>
            /\ resp[r].code = "UPSTREAM_ERROR"
            /\ resp[r].quota = rl[r]
            /\ \A p \in pending : p.by # r

\* C16, amended: a failure of the upstream step that is a
\* MerriamWebsterError is answered UPSTREAM_ERROR with the status of the
\* request's own checkAndIncrement; any other error of that step is answered
\* INTERNAL_ERROR without a status; in both cases no cache write is handed
\* over.
C16_ClassifiedFailure ==
    /\ [](\A r \in UpstreamFailed :
            /\ resp[r].code = "UPSTREAM_ERROR" =>
                  (resp[r].quota = rl[r] /\ rl[r].allowed)
            /\ resp[r].code = "INTERNAL_ERROR" => resp[r].quota = NoStatus
            /\ \A p \in pending : p.by # r)
    /\ [][\A r \in Req :
            /\ UpstreamFails(r, TRUE) => resp'[r].code = "UPSTREAM_ERROR"
            /\ UpstreamFails(r, FALSE) => resp'[r].code = "INTERNAL_ERROR"
            /\ (UpstreamFails(r, TRUE) \/ UpstreamFails(r, FALSE)) =>
                  (cache' = cache /\ pending' = pending)]_vars

\* One request was answered UPSTREAM_ERROR with the status of its check,
\* another INTERNAL_ERROR after its upstream step threw another error.
C16_Witness ==
    \E r, q \in UpstreamFailed :
        /\ resp[r].code = "UPSTREAM_ERROR" /\ resp[r].quota = rl[r]
        /\ resp[q].code = "INTERNAL_ERROR" /\ rl[q].allowed

\* The lookup requests received so far.
Lookups == {r \in Req : kind[r] \in LookupTypes}

\* C17: a lookup whose word is empty or longer than 100 characters is
\* answered INVALID_WORD at once, having issued no cache read, no call to
\* the rate limiter, no upstream call and no cache write; a lookup whose
\* word has 1 to 100 characters is never answered INVALID_WORD.
C17_ValidationFirst ==
    \A r \in Lookups :
        /\ (Len(word[r]) = 0 \/ Len(word[r]) > 100) =>
              /\ pc[r] = "done" /\ resp[r].code = "INVALID_WORD"
              /\ cached[r] = {} /\ path[r] = "none"
              /\ today[r] = NoDay /\ rl[r] = NoStatus
              /\ upstream[r] = 0
              /\ \A p \in pending : p.by # r
        /\ (1 <= Len(word[r]) /\ Len(word[r]) <= 100) =>
              resp[r].code # "INVALID_WORD"

\* A lookup of a word of 101 characters was answered INVALID_WORD; a lookup
\* of a word of 100 characters went through to the upstream and was served.
C17_Witness ==
    \E r, q \in Lookups :
        /\ Len(word[r]) = 101 /\ resp[r].code = "INVALID_WORD"
        /\ Len(word[q]) = 100 /\ resp[q].code = "OK" /\ upstream[q] = 1

\* The lookups whose cache read failed: a valid word, answered, and no
\* Durable Object endpoint was ever chosen.
CacheReadFailed ==
    {r \in Lookups : pc[r] = "done" /\ ~validateWord(word[r]) /\ path[r] = "none"}

\* The lookups whose checkAndIncrement call failed: sent, never answered.
QuotaCheckFailed ==
    {r \in Lookups : pc[r] = "done" /\ path[r] = "/check" /\ rl[r] = NoStatus}

\* C18: a lookup whose cache read failed has called neither the rate
\* limiter nor the upstream and is answered INTERNAL_ERROR, which is none of
\* OK, RATE_LIMITED, UPSTREAM_ERROR and INVALID_WORD; a lookup whose
\* checkAndIncrement call failed has called no upstream, has handed over no
\* cache write and is answered INTERNAL_ERROR; neither failure changes the
\* stored record.
C18_StoreFailureStops ==
    /\ [](\A r \in CacheReadFailed :
            /\ today[r] = NoDay /\ rl[r] = NoStatus
            /\ upstream[r] = 0
            /\ \A p \in pending : p.by # r
            /\ resp[r].code = "INTERNAL_ERROR"
            /\ resp[r].code \notin
                  {"OK", "RATE_LIMITED", "UPSTREAM_ERROR", "INVALID_WORD"})
    /\ [](\A q \in QuotaCheckFailed :
            /\ upstream[q] = 0
            /\ \A p \in pending : p.by # q
            /\ resp[q].code = "INTERNAL_ERROR")
    /\ [][\A r \in Req :
            (CacheGetFails(r) \/ DurableObjectFails(r)) =>
                (counter' = counter /\ pc'[r] = "done")]_vars

\* One lookup's cache read failed and another's checkAndIncrement call
\* failed; both were answered INTERNAL_ERROR and neither called upstream.
C18_Witness ==
    \E r \in CacheReadFailed, q \in QuotaCheckFailed :
        /\ resp[r].code = "INTERNAL_ERROR" /\ upstream[r] = 0
        /\ resp[q].code = "INTERNAL_ERROR" /\ upstream[q] = 0
        /\ today[q] # NoDay

\* A word without the spaces around it.
RECURSIVE TrimStart(_)
TrimStart(w) == IF Len(w) > 0 /\ Head(w) = " " THEN TrimStart(Tail(w)) ELSE w

RECURSIVE TrimEnd(_)
TrimEnd(w) ==
    IF Len(w) > 0 /\ w[Len(w)] = " " THEN TrimEnd(SubSeq(w, 1, Len(w) - 1)) ELSE w

Trim(w) == TrimEnd(TrimStart(w))

\* "<t>|<lowercased w>" for the word as typed, in any letter case and with
\* or without spaces around it.
Fingerprint(t, w) == TypeString(t) \o <<"|">> \o ToLowerCase(Trim(w))

\* C19 as stated: two lookups of one type whose words differ only in letter
\* case and in surrounding whitespace have the same cache key,
\* "<t>|<lowercased w>"; and a lookup that reads the cache while an entry
\* is stored under that fingerprint is a cache hit.
C19_OneFingerprint ==
    /\ [](\A r \in Lookups : \A q \in Lookups :
            (kind[r] = kind[q] /\ ~validateWord(word[r]) /\ ~validateWord(word[q])
               /\ Fingerprint(kind[r], word[r]) = Fingerprint(kind[q], word[q]))
            => getCacheKey(kind[r], word[r]) = getCacheKey(kind[q], word[q]))
    /\ [][\A r \in Req :
            (pc[r] = "cache_get" /\ pc'[r] = "do_wait"
               /\ \E e \in cache : e.key = Fingerprint(kind[r], word[r]))
            => cached'[r] # {}]_vars

\* C20: an entry written with found = TRUE carries no expiration and no
\* passing of time removes it; an entry written with found = FALSE is in the
\* cache right after its write, with an expiration 86400 seconds after it,
\* stays while the clock is short of that and is gone once the clock has
\* reached it; and a cache read returns exactly the entry stored under its
\* key.
C20_TtlAsymmetry ==
    /\ [](\A e \in cache :
            /\ e.found <=> e.expiration = NoExpiration
            /\ ~e.found => Clock < e.expiration)
    /\ [][\A p \in pending :
            SetCacheLands(p) =>
               \E e \in cache' :
                  /\ e.key = p.key /\ e.found = p.found /\ e.data = p.data
                  /\ e.expiration =
                        IF p.found THEN NoExpiration ELSE Clock + 86400]_vars
    /\ [][(Tick \/ Advance) =>
            \A e \in cache :
               /\ e.found => e \in cache'
               /\ (~e.found /\ Clock' < e.expiration) => e \in cache'
               /\ (~e.found /\ Clock' >= e.expiration) =>
                     \A f \in cache' : f.key # e.key]_vars
    /\ [][\A r \in Req :
            (pc[r] = "cache_get" /\ pc'[r] = "do_wait") =>
               cached'[r] = {e \in cache : e.key = getCacheKey(kind[r], word[r])}]_vars

\* A not-found entry was written and read back by a later lookup (a hit
\* with found = FALSE); 86400 seconds on, nothing is stored under its key.
C20_Witness ==
    /\ \E q \in Lookups :
          /\ resp[q].code = "OK" /\ resp[q].cached /\ ~resp[q].found
          /\ \A e \in cache : e.key # getCacheKey(kind[q], word[q])
    /\ pending = {}
    /\ Clock >= 86400

\* The cache deletions received so far, and the key each is about.
Deletes == {r \in Req : kind[r] = "delete"}

DeleteKey(r) == getCacheKey(delType[r], word[r])

Stored(key) == \E e \in cache : e.key = key

\* C21: a cache deletion whose existence check finds nothing under its key
\* answers NOT_FOUND; one that finds an entry goes on to delete, answers
\* DELETED and leaves nothing under the key; and a cache read of a key
\* nothing is stored under returns nothing.
C21_InvalidateOutcome ==
    [][\A r \in Req :
          /\ (pc[r] = "has_get" /\ pc'[r] # "has_get"
                /\ resp'[r].code # "INTERNAL_ERROR") =>
                IF Stored(DeleteKey(r))
                THEN pc'[r] = "kv_delete"
                ELSE pc'[r] = "done" /\ resp'[r].code = "NOT_FOUND"
          /\ (pc[r] = "kv_delete" /\ pc'[r] # "kv_delete"
                /\ resp'[r].code # "INTERNAL_ERROR") =>
                /\ resp'[r].code = "DELETED"
                /\ ~Stored(DeleteKey(r))'
          /\ (pc[r] = "cache_get" /\ pc'[r] = "do_wait"
                /\ ~Stored(getCacheKey(kind[r], word[r]))) =>
                cached'[r] = {}]_vars

\* Four requests in a row about one key: a deletion answered NOT_FOUND on
\* the empty cache, a lookup that was served and cached, a deletion answered
\* DELETED, a deletion answered NOT_FOUND again; nothing is stored or on its
\* way under the key.
C21_Witness ==
    \E a, b, c, d \in Req :
        /\ a < b /\ b < c /\ c < d
        /\ {a, c, d} \subseteq Deletes /\ b \in Lookups
        /\ DeleteKey(a) = getCacheKey(kind[b], word[b])
        /\ DeleteKey(c) = DeleteKey(a) /\ DeleteKey(d) = DeleteKey(a)
        /\ resp[a].code = "NOT_FOUND"
        /\ resp[b].code = "OK" /\ ~resp[b].cached
        /\ resp[c].code = "DELETED"
        /\ resp[d].code = "NOT_FOUND"
        /\ ~Stored(DeleteKey(a)) /\ pending = {}

\* C22: a cache deletion never goes to the rate limiter (it sends it no
\* request, holds no day, count or status of it, makes no MW API call and
\* starts no cache write), and no step of a deletion changes the quota
\* record; a step that does not end in DELETED leaves the cache as it was,
\* and the one that does removes the entry under "type|lowercased word" and
\* no other entry.
C22_OnlyItsKey ==
    /\ [](\A r \in Deletes :
             /\ path[r] = "none" /\ today[r] = NoDay /\ rl[r] = NoStatus
             /\ upstream[r] = 0 /\ writes[r] = 0 /\ cached[r] = {})
    /\ [][\A r \in Req :
             (kind'[r] = "delete" /\ pc'[r] # pc[r]) =>
                /\ counter' = counter
                /\ pending' = pending
                /\ IF resp'[r].code = "DELETED"
                   THEN cache' = {e \in cache :
                                     e.key # TypeString(delType[r]) \o <<"|">>
                                                 \o ToLowerCase(word[r])}
                   ELSE cache' = cache]_vars

\* A deletion was answered DELETED and nothing is stored under its key, while
\* the entry of the other type for the same word is still stored and the
\* quota record still holds the count of the lookups that wrote the two.
C22_Witness ==
    \E r \in Deletes :
        /\ resp[r].code = "DELETED"
        /\ ~Stored(DeleteKey(r))
        /\ \E t \in LookupTypes :
              t # delType[r] /\ Stored(getCacheKey(t, word[r]))
        /\ CountFor(counter, now) = 2

\* The lookups answered from the cache, and the number of answered lookups
\* up to and including r that were not.
Hit(r) == r \in Lookups /\ resp[r].code = "OK" /\ resp[r].cached

MissesUpTo(r) ==
    Cardinality({q \in Lookups : q <= r /\ pc[q] = "done" /\ ~Hit(q)})

\* The lookup answered last before r.
Preceding(r) == {q \in Lookups : q < r /\ \A p \in Lookups : p < r => p <= q}

\* C23: with lookups issued one after another on one day, starting from no
\* quota record and an empty cache, the k-th miss is answered with
\* remaining = limit - k and is not refused when k <= limit, and is refused
\* with RATE_LIMITED and remaining = 0 when k > limit; a hit reports what is
\* left after the misses before it, which is the remaining of the response
\* before it.
C23_SequentialRemaining ==
    \A r \in Lookups :
        (pc[r] = "done" /\ resp[r].quota # NoStatus) =>
            LET k == MissesUpTo(r)
            IN  IF Hit(r)
                THEN /\ resp[r].quota.remaining = Max(limit - k, 0)
                     /\ \A q \in Preceding(r) :
                           resp[q].quota # NoStatus =>
                              resp[r].quota.remaining = resp[q].quota.remaining
                ELSE IF k <= limit
                THEN /\ resp[r].code # "RATE_LIMITED"
                     /\ resp[r].quota.remaining = limit - k
                ELSE /\ resp[r].code = "RATE_LIMITED"
                     /\ resp[r].quota.remaining = 0

\* limit = 2 and four lookups in a row: a miss answered with remaining 1, the
\* same word again answered from the cache with remaining 1, another word
\* answered with remaining 0, and a fourth miss refused with remaining 0.
C23_Witness ==
    /\ limit = 2
    /\ resp[1].code = "OK" /\ ~resp[1].cached /\ resp[1].quota.remaining = 1
    /\ Hit(2) /\ word[2] = word[1] /\ resp[2].quota.remaining = 1
    /\ resp[3].code = "OK" /\ ~resp[3].cached /\ word[3] # word[1]
    /\ resp[3].quota.remaining = 0
    /\ resp[4].code = "RATE_LIMITED" /\ resp[4].quota.remaining = 0

LookupKey(r) == getCacheKey(kind[r], word[r])

\* A lookup that was served by the MW API, and the same lookup issued next,
\* after the response and with no request in between.
Repeated(a, b) ==
    /\ a \in Lookups /\ b \in Lookups /\ b = a + 1
    /\ kind[b] = kind[a] /\ LookupKey(b) = LookupKey(a)
    /\ resp[a].code = "OK" /\ ~resp[a].cached

\* C24 as stated: the same lookup issued again after a served miss is a cache
\* hit with the same data.
C24_RepeatIsHit ==
    \A a, b \in Req :
        (Repeated(a, b) /\ pc[b] = "done") =>
            Hit(b) /\ resp[b].data = resp[a].data

\* C24: a lookup that reads the cache while an entry is stored under its key
\* takes that entry and asks the rate limiter for the status only; a lookup
\* answered from the cache made no MW API call, carries the result of an
\* earlier served miss of the same key, and none of its steps changes the
\* quota record.
C24_HitOnceStored ==
    /\ [](\A r \in Lookups :
             Hit(r) =>
                /\ path[r] = "/status" /\ upstream[r] = 0 /\ writes[r] = 0
                /\ \E a \in Lookups :
                      /\ a < r /\ LookupKey(a) = LookupKey(r)
                      /\ resp[a].code = "OK" /\ ~resp[a].cached
                      /\ resp[a].data = resp[r].data
                      /\ resp[a].found = resp[r].found)
    /\ [][\A r \in Lookups :
             /\ (pc[r] = "cache_get" /\ pc'[r] = "do_wait" /\ Stored(LookupKey(r))) =>
                   /\ cached'[r] = {e \in cache : e.key = LookupKey(r)}
                   /\ path'[r] = "/status"
             /\ (cached[r] # {} /\ pc'[r] # pc[r]) => counter' = counter]_vars

\* A served miss whose write has landed, and the same lookup issued next and
\* answered from the cache with the same data; one unit is used.
C24_Witness ==
    \E a, b \in Req :
        /\ Repeated(a, b) /\ Hit(b)
        /\ resp[b].data = resp[a].data
        /\ resp[b].quota.remaining = resp[a].quota.remaining
        /\ CountFor(counter, now) = 1

\* The requests served by the MW API.
Served == {r \in Lookups : resp[r].code = "OK" /\ ~resp[r].cached}

\* C25: a request has started one cache write if the MW API served it and
\* none otherwise; the write started is the one for the key, the result and
\* the found flag of its response; and the completion of a deferred write,
\* landed or failed, changes no response.
C25_OneWritePerSuccess ==
    /\ [](\A r \in Req : writes[r] = IF r \in Served THEN 1 ELSE 0)
    /\ [][/\ \A r \in Req :
                (pc[r] = "mw_call" /\ resp'[r].code = "OK") =>
                   pending' = pending \cup
                      {[by |-> r, key |-> LookupKey(r), data |-> resp'[r].data,
                        found |-> resp'[r].found]}
          /\ \A r \in Req :
                (pc[r] # "mw_call" \/ resp'[r].code # "OK") =>
                   \A p \in pending' \ pending : p.by # r
          /\ pending' \subseteq pending /\ pending' # pending => resp' = resp]_vars

\* A lookup was served with a found result, its deferred write failed
\* (nothing is stored under its key and no write is on its way), and its
\* response is the success envelope still.
C25_Witness ==
    \E r \in Served :
        /\ resp[r].found /\ writes[r] = 1
        /\ ~Stored(LookupKey(r)) /\ pending = {}
        /\ \A q \in Served : q = r

\* C26: the quota block of an answered request is the status its own call of
\* the rate limiter returned (with remaining 0 in a refusal), whatever the
\* quota record holds when the response is built; for a miss that was let
\* through, remaining is the limit less the count its own increment wrote;
\* and the status a request holds is never replaced by a later one.
C26_OwnSnapshot ==
    /\ [](\A r \in Req :
             (pc[r] = "done" /\ resp[r].quota # NoStatus) =>
                /\ rl[r] # NoStatus
                /\ resp[r].quota =
                      IF resp[r].code = "RATE_LIMITED"
                      THEN [rl[r] EXCEPT !.remaining = 0]
                      ELSE rl[r])
    /\ [][\A r \in Req :
             /\ rl[r] # NoStatus => rl'[r] = rl[r]
             /\ (pc[r] = "ci_put" /\ pc'[r] = "do_resp") =>
                   rl'[r].remaining = limit - CountFor(counter', today[r])]_vars

\* Two misses on one day with limit 2: the first to be let through was
\* answered after the second had incremented the count, and its quota block
\* says one unit is left while the quota record has none.
C26_Witness ==
    \E r \in Served :
        /\ resp[r].quota.remaining = 1
        /\ today[r] = now
        /\ limit - CountFor(counter, now) = 0
        /\ \E q \in Lookups : q # r /\ pc[q] = "mw_call" /\ today[q] = now

\* A deletion removes the entry under key in this step.
Invalidated(key) ==
    \E r \in Deletes :
        /\ pc[r] = "kv_delete" /\ resp'[r].code = "DELETED"
        /\ DeleteKey(r) = key

\* C27 as stated: a write lands only under a key nothing is stored under
\* (the entry is created by the first served lookup, and written again only
\* after a deletion), and an entry with found = TRUE stays as it is in every
\* step that is not a deletion of its key.
C27_WrittenOnce ==
    [][/\ \A p \in pending :
             (p \notin pending' /\ cache' # cache) => ~Stored(p.key)
       /\ \A e \in cache :
             e.found => (e \in cache' \/ Invalidated(e.key))]_vars

\* The body of the MW API's answer a lookup result or a cache entry was made
\* of.
BodyOf(data) == data[1]

\* C28: a lookup the MW API answers with an empty list is answered like one
\* it answers with suggestions, a success envelope with cached = FALSE and
\* found = FALSE; the write of either lands as an entry with found = FALSE
\* that expires NOT_FOUND_TTL = 86400 seconds after the put; and no such
\* entry is stored at or after its expiration.
C28_EmptyIsNotFound ==
    /\ [](\A r \in Lookups :
             (pc[r] = "done" /\ resp[r].data # NoData
                   /\ BodyOf(resp[r].data) \in {"empty", "suggestions"}) =>
                resp[r].code = "OK" /\ ~resp[r].found)
    /\ [](\A e \in cache :
             BodyOf(e.data) \in {"empty", "suggestions"} =>
                ~e.found /\ e.expiration # NoExpiration /\ Clock < e.expiration)
    /\ [][/\ \A r \in Lookups :
                (pc[r] = "mw_call" /\ resp'[r].code = "OK"
                      /\ BodyOf(resp'[r].data) \in {"empty", "suggestions"}) =>
                   /\ ~resp'[r].cached /\ ~resp'[r].found
                   /\ \E p \in pending' \ pending : p.by = r /\ ~p.found
          /\ \A e \in cache' \ cache :
                BodyOf(e.data) \in {"empty", "suggestions"} =>
                   e.expiration = Clock + 24 * 60 * 60]_vars

\* A lookup was answered from an empty list, its entry was stored and read
\* back by a later lookup, and 86400 seconds after the put nothing is stored
\* under the key.
C28_Witness ==
    /\ \E r \in Served, q \in Lookups :
          /\ BodyOf(resp[r].data) = "empty" /\ ~resp[r].found
          /\ Hit(q) /\ resp[q].data = resp[r].data /\ ~resp[q].found
          /\ ~Stored(LookupKey(r))
    /\ pending = {}
    /\ Clock >= 24 * 60 * 60

\* C29: a lookup calls the MW API at most once; the step that ends the call
\* ends the request, with the success envelope or with the outcome of
\* handleMWError, and makes no further call; an answered request takes no
\* further step; and a request enters checkAndIncrement only from its wait
\* for the rate limiter after its cache read, holding no status and having
\* made no MW API call, so at most once.
C29_NoRetry ==
    /\ [](\A r \in Req : upstream[r] <= 1)
    /\ [][\A r \in Req : kind'[r] \in LookupTypes =>
             /\ (pc[r] = "mw_call" /\ pc'[r] # "mw_call") =>
                   /\ pc'[r] = "done" /\ upstream'[r] = upstream[r]
                   /\ resp'[r].code \in {"OK", "UPSTREAM_ERROR", "INTERNAL_ERROR"}
             /\ pc[r] = "done" => (pc'[r] = "done" /\ resp'[r] = resp[r])
             /\ (pc'[r] = "ci_get" /\ pc[r] # "ci_get") =>
                   /\ pc[r] = "do_wait" /\ path[r] = "/check"
                   /\ rl[r] = NoStatus /\ upstream[r] = 0
             /\ (pc'[r] = "do_wait" /\ pc[r] # "do_wait") => pc[r] = "cache_get"
             /\ (pc'[r] = "cache_get" /\ pc[r] # "cache_get") => pc[r] = "idle"]_vars

\* A lookup whose one MW API call failed was answered UPSTREAM_ERROR, and
\* the quota record counts its one unit.
C29_Witness ==
    \E r \in Lookups :
        /\ pc[r] = "done" /\ resp[r].code = "UPSTREAM_ERROR"
        /\ upstream[r] = 1
        /\ today[r] = now /\ CountFor(counter, now) = 1

\* C30: the resetsAt of a status is a midnight later than the instant at
\* which the call computes it and at most a day later, at every step in
\* which checkAndIncrement or getStatus returns; and the quota record holds
\* a date and a count only.
C30_NextMidnight ==
    /\ [](\A s \in counter : DOMAIN s = {"date", "count"})
    /\ [][\A r \in Req :
             (rl[r] = NoStatus /\ rl'[r] # NoStatus) =>
                /\ rl'[r].resetsAt * DaySeconds > Clock
                /\ rl'[r].resetsAt * DaySeconds - DaySeconds <= Clock]_vars

\* On the second day, past its midnight, a getStatus call that found the
\* record of the day before answered with the midnight of the day after.
C30_Witness ==
    \E r \in CompletedStatus :
        /\ now = 1 /\ secs > 0
        /\ today[r] = 1 /\ rl[r].resetsAt = 2
        /\ \E s \in counter : s.date = 0

\* The requests that did not present the key their endpoint asks for.
Unauthenticated ==
    {r \in Req : \/ kind[r] \in LookupTypes \cup {"status"} /\ token[r] # WORKER_API_KEY
                 \/ kind[r] = "delete" /\ token[r] # ADMIN_API_KEY}

\* C31: a status or lookup request without the user key is answered
\* UNAUTHORIZED and a cache deletion without the admin key FORBIDDEN, in the
\* step that receives it; that step leaves the cache, the quota record and
\* the deferred writes as they were, and the request never calls the rate
\* limiter or the MW API and starts no cache write.
C31_RejectedWithoutKey ==
    /\ [](\A r \in Unauthenticated :
             /\ pc[r] = "done"
             /\ resp[r].code = IF kind[r] = "delete" THEN "FORBIDDEN" ELSE "UNAUTHORIZED"
             /\ path[r] = "none" /\ rl[r] = NoStatus /\ today[r] = NoDay
             /\ upstream[r] = 0 /\ writes[r] = 0 /\ cached[r] = {})
    /\ [][\A r \in Req :
             (pc[r] = "idle" /\ r \in Unauthenticated') =>
                cache' = cache /\ counter' = counter /\ pending' = pending]_vars

\* An entry is stored and counted; then a deletion of its key that presented
\* the user key was answered FORBIDDEN and a lookup that presented the admin
\* key was answered UNAUTHORIZED, and the entry and the count are as before.
C31_Witness ==
    \E a, b \in Unauthenticated :
        /\ kind[a] = "delete" /\ token[a] = WORKER_API_KEY
        /\ resp[a].code = "FORBIDDEN" /\ Stored(DeleteKey(a))
        /\ kind[b] \in LookupTypes /\ token[b] = ADMIN_API_KEY
        /\ resp[b].code = "UNAUTHORIZED"
        /\ CountFor(counter, now) = 1

\* Two lookups of one key that both missed the cache and whose
\* checkAndIncrement calls have both returned, on the same day.
BothMissed(r, q) ==
    /\ r \in Lookups /\ q \in Lookups /\ r # q
    /\ kind[r] = kind[q] /\ LookupKey(r) = LookupKey(q)
    /\ path[r] = "/check" /\ path[q] = "/check"
    /\ rl[r] # NoStatus /\ rl[q] # NoStatus
    /\ today[r] = today[q]

\* C32: of two lookups of one key that both missed, each went through its
\* own checkAndIncrement: with two units or more left for the two, both are
\* let through and the record counts both; with one unit left exactly one is
\* let through; a lookup let through makes its own MW API call and starts
\* its own cache write, and the one refused is answered RATE_LIMITED without
\* a call.
C32_NoDeduplication ==
    \A r, q \in Req :
        BothMissed(r, q) =>
            LET d == today[r]
                left == limit - Cardinality(AllowedOn(d) \ {r, q})
                through == {x \in {r, q} : rl[x].allowed}
            IN  /\ Cardinality(through) = Max(0, Min(2, left))
                /\ (\E s \in counter : s.date = d) =>
                      CountFor(counter, d) >= Cardinality(through)
                /\ \A x \in {r, q} :
                      pc[x] = "done" =>
                         IF rl[x].allowed
                         THEN upstream[x] = 1 /\
                              (resp[x].code = "OK" => writes[x] = 1 /\ ~resp[x].cached)
                         ELSE upstream[x] = 0 /\ resp[x].code = "RATE_LIMITED"

\* limit = 2: two lookups of one key were both served by the MW API, each
\* after its own increment (remaining 1 and 0), the record counts 2 and two
\* cache writes were started.
C32_Witness ==
    \E r, q \in Served :
        /\ BothMissed(r, q) /\ limit = 2
        /\ resp[r].quota.remaining = 1 /\ resp[q].quota.remaining = 0
        /\ CountFor(counter, today[r]) = 2
        /\ writes[r] = 1 /\ writes[q] = 1

\* The entry the write p stores.
EntryOf(p) ==
    [key |-> p.key, data |-> p.data, found |-> p.found,
     expiration |-> ExpirationFor(p.found)]

\* C33: the cache changes only when a deferred write lands or a deletion
\* deletes; a write that lands leaves exactly its own entry under its key
\* and a deletion leaves nothing under its key, whatever was there, and
\* neither touches another key; so there is never more than one entry under
\* a key, and an entry is the result of one lookup that was served.
C33_LastOneWins ==
    /\ [](\A e, f \in cache : e.key = f.key => e = f)
    /\ [](\A e \in cache :
             \E r \in Served :
                LookupKey(r) = e.key /\ resp[r].data = e.data /\ resp[r].found = e.found)
    /\ [][cache' # cache =>
             \/ \E p \in pending \ pending' :
                   cache' = {e \in cache : e.key # p.key} \cup {EntryOf(p)}
             \/ \E r \in Deletes :
                   /\ pc[r] = "kv_delete" /\ resp'[r].code = "DELETED"
                   /\ cache' = {e \in cache : e.key # DeleteKey(r)}]_vars

\* Two lookups of one key were served and then a deletion of the key was
\* received; the deletion found the entry of the first and deleted, the write
\* of the second landed after that, and its entry is what is stored.
C33_Witness ==
    \E a, b \in Served, r \in Deletes :
        /\ a < b /\ b < r
        /\ LookupKey(a) = DeleteKey(r) /\ LookupKey(b) = DeleteKey(r)
        /\ resp[a].data # resp[b].data
        /\ resp[r].code = "DELETED"
        /\ pending = {}
        /\ \E e \in cache : e.key = DeleteKey(r) /\ e.data = resp[b].data

\* C34 as stated: two deletions of one key are not both answered DELETED
\* unless a second cache write for the key was started (with one write for
\* the key, nothing can have been written between the two).
C34_OneDeleter ==
    \A r, q \in Deletes :
        (r # q /\ DeleteKey(r) = DeleteKey(q)
              /\ resp[r].code = "DELETED" /\ resp[q].code = "DELETED") =>
            Cardinality({a \in Served : LookupKey(a) = DeleteKey(r)}) >= 2

\* C35: no step replaces the quota record by a record of an earlier date.
C35_DateNeverBack ==
    [][\A s \in counter, t \in counter' : t.date >= s.date]_vars

\* A checkAndIncrement call that began on day 0 wrote its record after
\* midnight (its status names the midnight that ends day 1), and a call of
\* day 1 has written the record of day 1 after it.
C35_Witness ==
    \E r, q \in Req :
        /\ r \in AllowedOn(0) /\ rl[r].resetsAt = 2
        /\ q \in AllowedOn(1)
        /\ counter = {[date |-> 1, count |-> 1]}

\* C36 as stated: the resetsAt of a status is the midnight that ends the day
\* the call read as today.
C36_ResetsAtEndOfToday ==
    \A r \in Req : rl[r] # NoStatus => rl[r].resetsAt = today[r] + 1

\* C36: in the step in which a call of the rate limiter returns, remaining
\* is computed from the count of the day the call read as today, and
\* resetsAt is the midnight that ends the day of the return: the end of
\* today when no midnight passed during the call, and a later midnight
\* otherwise.
C36_ResetsAtEndOfReturnDay ==
    [][\A r \in Req :
          (rl[r] = NoStatus /\ rl'[r] # NoStatus) =>
             /\ rl'[r].remaining =
                   IF rl'[r].allowed
                   THEN limit - CountFor(counter', today[r])
                   ELSE 0
             /\ rl'[r].resetsAt = now + 1
             /\ IF now = today[r]
                THEN rl'[r].resetsAt = today[r] + 1
                ELSE rl'[r].resetsAt > today[r] + 1]_vars

\* A checkAndIncrement call read day 0 as today and was let through on the
\* count of day 0; midnight passed before it returned, and its resetsAt is
\* the midnight that ends day 1.
C36_Witness ==
    \E r \in AllowedOn(0) :
        /\ rl[r].resetsAt = 2
        /\ rl[r].remaining = limit - 1
        /\ counter = {[date |-> 0, count |-> 1]}

\* Words for the comparison of keys: the word of the requests in its letter
\* cases, and words that contain the separator.
KeyWords ==
    { <<"H", "i">>, <<"h", "i">>, <<"i">>, <<"|">>, <<"h", "|", "i">>, <<"|", "h", "i">> }

\* Two (type, word) pairs have the same key only if they have the same type
\* and the same lowercased word.
KeysOneToOne ==
    \A t \in LookupTypes, u \in LookupTypes, v \in KeyWords, w \in KeyWords :
        getCacheKey(t, v) = getCacheKey(u, w) =>
           t = u /\ ToLowerCase(v) = ToLowerCase(w)

\* C37: two (type, word) pairs have the same cache key only if the types
\* are the same and the lowercased words are the same; what a lookup takes
\* from the cache was stored for a served lookup of its own type and
\* lowercased word; and a deletion leaves every entry of the other type as
\* it was.
C37_TypesIsolated ==
    /\ [](/\ KeysOneToOne
           /\ \A r \in Lookups : \A e \in cached[r] :
                \E a \in Served :
                   /\ kind[a] = kind[r] /\ ToLowerCase(word[a]) = ToLowerCase(word[r])
                   /\ resp[a].data = e.data /\ resp[a].found = e.found)
    /\ [][\A r \in Deletes :
             (pc[r] = "kv_delete" /\ pc'[r] # "kv_delete") =>
                \A t \in LookupTypes \ {delType[r]}, w \in KeyWords :
                   \A e \in cache : e.key = getCacheKey(t, w) => e \in cache']_vars

\* Only a define lookup has been served and its entry is stored; a synonyms
\* lookup of the same word read the cache after that and got nothing; and a
\* deletion of the synonyms entry was answered NOT_FOUND.
C37_Witness ==
    \E a \in Served, b \in Lookups, r \in Deletes :
        /\ kind[a] = "define" /\ kind[b] = "synonyms" /\ a < b /\ b < r
        /\ word[a] = word[b] /\ ToLowerCase(word[r]) = word[a]
        /\ Stored(LookupKey(a))
        /\ path[b] = "/check" /\ cached[b] = {} /\ pc[b] = "mw_call"
        /\ delType[r] = "synonyms" /\ resp[r].code = "NOT_FOUND"
        /\ \A q \in Served : q = a

\* C38: a deferred write that lands leaves under its key the data and the
\* found flag it was handed, unchanged by the put and the read back, and an
\* expiration chosen by that found flag; a lookup's cache read takes exactly
\* what is stored under its key at that moment; and the answer of a cache
\* hit carries the data and the found flag that were read, the found flag
\* being the one the data itself states and the one the expiration was
\* chosen by.
C38_HitReturnsStored ==
    /\ [][\A p \in pending :
             (pending' = pending \ {p} /\ cache' # cache) =>
                \E e \in cache' :
                   /\ e.key = p.key /\ e.data = p.data /\ e.found = p.found
                   /\ (e.expiration = NoExpiration) = p.found
                   /\ \A f \in cache' : f.key = p.key => f = e]_vars
    /\ [][\A r \in Lookups :
             (pc[r] = "cache_get" /\ pc'[r] = "do_wait") =>
                cached'[r] = {e \in cache : e.key = LookupKey(r)}]_vars
    /\ [][\A r \in Lookups :
             (pc[r] = "do_resp" /\ pc'[r] = "done" /\ cached[r] # {}) =>
                \E e \in cached[r] :
                   /\ resp'[r].code = "OK" /\ resp'[r].cached
                   /\ resp'[r].data = e.data /\ resp'[r].found = e.found
                   /\ isEntries(BodyOf(e.data)) = e.found
                   /\ (e.expiration = NoExpiration) = e.found]_vars
    /\ [](\A e \in cache :
             /\ isEntries(BodyOf(e.data)) = e.found
             /\ (e.expiration = NoExpiration) = e.found)

\* Two lookups that missed were served different results, the later one a
\* not-found result; both writes are over and the entry stored is the later
\* lookup's, with an expiration; a third lookup hit the cache and was
\* answered that result, not found.
C38_Witness ==
    \E a \in Served, b \in Served, r \in Lookups :
        /\ a < b /\ b < r /\ Hit(r)
        /\ LookupKey(a) = LookupKey(b) /\ LookupKey(b) = LookupKey(r)
        /\ ~resp[a].cached /\ ~resp[b].cached
        /\ resp[a].data # resp[b].data
        /\ resp[r].data = resp[b].data /\ ~resp[r].found
        /\ pending = {}
        /\ \E e \in cache :
              e.key = LookupKey(r) /\ e.data = resp[r].data /\ e.expiration # NoExpiration

\* The outcomes of a lookup.
Outcomes == {"OK", "RATE_LIMITED", "UPSTREAM_ERROR", "INVALID_WORD", "INTERNAL_ERROR"}

\* The requests whose handler is suspended at a call.
InFlight == {r \in Req : pc[r] \notin {"idle", "done"}}

====
